---- MODULE Spec2Model ----
(***************************************************************************)
(* Model of large_page-c/large_page.c: discovery of a module's .text       *)
(* range, alignment and validation of the range, and the remap of the      *)
(* range onto anonymous huge-page-advised memory.                          *)
(*                                                                         *)
(* Addresses are uintptr_t values of AddrBits bits (64 in the source) and  *)
(* the huge page is 2^HPSBits bytes (2^21 in the source); both are scaled  *)
(* down, and all address arithmetic wraps modulo 2^AddrBits.               *)
(***************************************************************************)
EXTENDS Integers, Sequences, FiniteSets, TLC

AddrBits == 5
HPSBits == 2

\* #define HPS (2L * 1024 * 1024)
HPS == 2 ^ HPSBits
AddrSpace == 2 ^ AddrBits
Addr == 0 .. (AddrSpace - 1)
NULL == 0

(***************************************************************************)
(* map_status: the values are the positions in the table of MapStatusStr,  *)
(* which indexes it by (status << 1).                                      *)
(***************************************************************************)
map_ok == 0
map_failed_to_open_thp_file == 1
map_failed_to_stat_exe == 2
map_failed_to_open_exe == 3
map_failed_to_map_exe_see_errno == 4
map_failed_to_find_text_section == 5
map_failed_to_unmap_exe_see_errno == 6
map_failed_to_close_exe_see_errno == 7
map_invalid_regex == 8
map_invalid_region_address == 9
map_malformed_thp_file == 10
map_null_regex == 11
map_region_not_found == 12
map_region_too_small == 13
map_see_errno == 14
map_see_errno_madvise_tmem_failed == 15
map_see_errno_madvise_tmem_munmap_nmem_failed == 16
map_see_errno_madvise_tmem_munmaps_failed == 17
map_see_errno_madvise_tmem_munmap_tmem_failed == 18
map_see_errno_mmap_tmem_failed == 19
map_see_errno_mmap_tmem_munmap_nmem_failed == 20
map_see_errno_mprotect_failed == 21
map_see_errno_mprotect_munmap_nmem_failed == 22
map_see_errno_mprotect_munmaps_failed == 23
map_see_errno_mprotect_munmap_tmem_failed == 24
map_see_errno_munmap_nmem_failed == 25
map_unsupported_platform == 26

(***************************************************************************)
(* Address arithmetic.                                                     *)
(***************************************************************************)
\* unsigned wrap-around of uintptr_t / size_t
Wrap(x) == (x + 2 * AddrSpace) % AddrSpace

\* the value of an AddrBits-wide word read as a signed ptrdiff_t
Signed(x) == IF x >= AddrSpace \div 2 THEN x - AddrSpace ELSE x

\* r->to - r->from on void*: a ptrdiff_t
PtrDiff(to, from) == Signed(Wrap(to - from))

largepage_align_down(addr) == addr - (addr % HPS)

\* a rounding that adds a whole page instead of a page less one
largepage_align_up_off_by_one(addr) == largepage_align_down(Wrap(addr + HPS))

largepage_align_up(addr) == largepage_align_down(Wrap(addr + HPS - 1))

\* mem_range
Range(from, to) == [from |-> from, to |-> to]

\* an alignment that forgets to round r->to
AlignRegionToPageBoundary_from_only(r) == Range(largepage_align_up(r.from), r.to)

\* an alignment that rounds r->from down, to the page that holds it
AlignRegionToPageBoundary_outward(r) ==
    Range(largepage_align_down(r.from), largepage_align_down(r.to))

AlignRegionToPageBoundary(r) ==
    Range(largepage_align_up(r.from), largepage_align_down(r.to))

\* a validation without the size check
CheckMemRange_no_size(r) ==
    IF r.from = NULL \/ r.to = NULL \/ r.from > r.to
    THEN map_invalid_region_address
    ELSE map_ok

\* a validation that takes from == to for inverted bounds
CheckMemRange_ge(r) ==
    IF r.from = NULL \/ r.to = NULL \/ r.from >= r.to
    THEN map_invalid_region_address
    ELSE IF PtrDiff(r.to, r.from) < HPS
         THEN map_region_too_small
         ELSE map_ok

CheckMemRange(r) ==
    IF r.from = NULL \/ r.to = NULL \/ r.from > r.to
    THEN map_invalid_region_address
    ELSE IF PtrDiff(r.to, r.from) < HPS
         THEN map_region_too_small
         ELSE map_ok

(***************************************************************************)
(* The process image: the modules dl_iterate_phdr enumerates (the main     *)
(* executable first, with the empty name), their section headers, and the  *)
(* memory they occupy.                                                     *)
(***************************************************************************)
Section(name, addr, size) == [name |-> name, sh_addr |-> addr, sh_size |-> size]

Module(name, base, sections) ==
    [dlpi_name |-> name, dlpi_addr |-> base, sections |-> sections]

LibcName == "/lib/libc.so"

Libc == Module(LibcName, 6 * HPS, << Section(".text", 1, HPS) >>)

\* the section tables the main executable may have
MainSections ==
    { << Section(".text", 1, 2 * HPS + 1), Section(".data", 4 * HPS - 1, 1) >>,
      << Section(".text", HPS, 2 * HPS), Section(".data", 4 * HPS - 1, 1) >>,
      << Section(".text", 1, HPS), Section(".data", 4 * HPS - 1, 1) >>,
      << Section(".data", 4 * HPS - 1, 1) >> }

\* the name dl_iterate_phdr reports for the main program: empty with glibc,
\* the path of the executable with C libraries that report it by path
AppName == "/bin/app"
MainNames == {"", AppName}

Layouts ==
    { << Module(name, 2 * HPS, secs), Libc >> :
        name \in MainNames, secs \in MainSections }

\* MoveRegionToLargePages lives in section .lpstub, aligned to HPS
StubAddr == 5 * HPS

\* memcpy, madvise, mprotect and munmap live in the C library's .text
LibcallAddr == 6 * HPS + 1

\* strncmp(name, ".text", 5) == 0
HasTextPrefix(name) == name \in {".text", ".text.hot", ".text.unlikely"}

\* the loop keeps the last section header whose name begins with .text
TextIndexes(secs) == { i \in 1 .. Len(secs) : HasTextPrefix(secs[i].name) }

Max(S) == CHOOSE x \in S : \A y \in S : y <= x

InText(mods, a) ==
    \E i \in 1 .. Len(mods) : \E j \in TextIndexes(mods[i].sections) :
        LET lo == mods[i].dlpi_addr + mods[i].sections[j].sh_addr
        IN  lo <= a /\ a < lo + mods[i].sections[j].sh_size

\* the addresses the loader has mapped
InImage(a) == (2 * HPS <= a /\ a < 6 * HPS) \/ (6 * HPS <= a /\ a < 7 * HPS + 2)

\* the bytes of the image; anonymous memory is zero-filled
OrigByte(a) == 1 + (a % 3)

\* the bytes of an address space as a sequence: bytes[a + 1] is at address a
Bytes(f) == [i \in 1 .. AddrSpace |-> f[i - 1]]

ByteAt(m, a) == m.data[a + 1]

\* the address space: the sets of addresses that are mapped, readable,
\* writable, executable, anonymous and advised for huge pages, and the bytes
InitMem(mods) ==
    LET image == { a \in Addr : InImage(a) }
        code == { a \in image : InText(mods, a) \/ a = StubAddr }
    IN  [mapped |-> image,
         readable |-> image,
         writable |-> image \ code,
         executable |-> code,
         anon |-> {},
         huge |-> {},
         data |-> [i \in 1 .. AddrSpace |->
                     IF InImage(i - 1) THEN OrigByte(i - 1) ELSE 0]]

(***************************************************************************)
(* Regular expressions: the patterns callers pass, as regcomp and regexec  *)
(* treat them.  NoRegex is the NULL pointer.                               *)
(***************************************************************************)
NoRegex == "NULL"
Patterns == {"libc", "app", "nomatch", "", "["}

\* regcomp(&regex, lib_regex, 0) == 0
RegexCompiles(p) == p # "["

\* regexec(&regex, name, 0, NULL, 0) == 0: an unanchored search
RegexMatches(p, name) ==
    \/ p = ""
    \/ p = "libc" /\ name = LibcName
    \/ p = "app" /\ name = AppName

(***************************************************************************)
(* FindMapping: the dl_iterate_phdr callback.  o gives the outcome of each *)
(* system call it makes (TRUE: success).                                   *)
(***************************************************************************)
FileOutcomes == [stat : BOOLEAN, open : BOOLEAN, mmap : BOOLEAN,
                 munmap : BOOLEAN, close : BOOLEAN]

FindParams(start, end, regex, have_regex) ==
    [start |-> start, end |-> end, regex |-> regex, have_regex |-> have_regex]

\* a call on the file of a module, and whether it succeeded
FileOp(op, file, ok) == [op |-> op, file |-> file, ok |-> ok]

\* the condition under which FindMapping processes the module
Matches(find_params, hdr) ==
    \/ (find_params.have_regex /\ RegexMatches(find_params.regex, hdr.dlpi_name))
    \/ hdr.dlpi_name = ""

\* a FindMapping that returns from a failed mmap without closing the file
FindMapping_leaks_fd(hdr, find_params, o) ==
    LET filename == IF hdr.dlpi_name = "" THEN "/proc/self/exe" ELSE hdr.dlpi_name
        text == TextIndexes(hdr.sections)
        shdr_text == hdr.sections[Max(text)]
        start == Wrap(shdr_text.sh_addr + hdr.dlpi_addr)
        found == [find_params EXCEPT !.start = start,
                                     !.end = Wrap(start + shdr_text.sh_size)]
        stat == FileOp("stat", filename, o.stat)
        open == FileOp("open", filename, o.open)
        mmap == FileOp("mmap", filename, o.mmap)
        munmap == FileOp("munmap", filename, o.munmap)
        close == FileOp("close", filename, o.close)
    IN  IF ~Matches(find_params, hdr)
        THEN [ret |-> -map_region_not_found, params |-> find_params, fops |-> << >>]
        ELSE IF ~o.stat
        THEN [ret |-> -map_failed_to_stat_exe, params |-> find_params,
              fops |-> << stat >>]
        ELSE IF ~o.open
        THEN [ret |-> -map_failed_to_open_exe, params |-> find_params,
              fops |-> << stat, open >>]
        ELSE IF ~o.mmap
        THEN [ret |-> -map_failed_to_map_exe_see_errno, params |-> find_params,
              fops |-> << stat, open, mmap >>]
        ELSE IF text = {}
        THEN [ret |-> -map_failed_to_find_text_section, params |-> find_params,
              fops |-> << stat, open, mmap, munmap, close >>]
        ELSE IF ~o.munmap
        THEN [ret |-> map_failed_to_unmap_exe_see_errno, params |-> found,
              fops |-> << stat, open, mmap, munmap, close >>]
        ELSE IF ~o.close
        THEN [ret |-> -map_failed_to_close_exe_see_errno, params |-> found,
              fops |-> << stat, open, mmap, munmap, close >>]
        ELSE [ret |-> 1, params |-> found,
              fops |-> << stat, open, mmap, munmap, close >>]

\* the value FindMapping returns, find_params as it leaves it, and the calls
\* it made on the module's file
FindMapping(hdr, find_params, o) ==
    LET filename == IF hdr.dlpi_name = "" THEN "/proc/self/exe" ELSE hdr.dlpi_name
        text == TextIndexes(hdr.sections)
        shdr_text == hdr.sections[Max(text)]
        start == Wrap(shdr_text.sh_addr + hdr.dlpi_addr)
        found == [find_params EXCEPT !.start = start,
                                     !.end = Wrap(start + shdr_text.sh_size)]
        stat == FileOp("stat", filename, o.stat)
        open == FileOp("open", filename, o.open)
        mmap == FileOp("mmap", filename, o.mmap)
        munmap == FileOp("munmap", filename, o.munmap)
        close == FileOp("close", filename, o.close)
    IN  IF ~Matches(find_params, hdr)
        THEN [ret |-> -map_region_not_found, params |-> find_params, fops |-> << >>]
        ELSE IF ~o.stat
        THEN [ret |-> -map_failed_to_stat_exe, params |-> find_params,
              fops |-> << stat >>]
        ELSE IF ~o.open
        THEN [ret |-> -map_failed_to_open_exe, params |-> find_params,
              fops |-> << stat, open >>]
        ELSE IF ~o.mmap
        THEN [ret |-> -map_failed_to_map_exe_see_errno, params |-> find_params,
              fops |-> << stat, open, mmap, close >>]
        ELSE IF text = {}
        THEN [ret |-> -map_failed_to_find_text_section, params |-> find_params,
              fops |-> << stat, open, mmap, munmap, close >>]
        ELSE IF ~o.munmap
        THEN [ret |-> map_failed_to_unmap_exe_see_errno, params |-> found,
              fops |-> << stat, open, mmap, munmap, close >>]
        ELSE IF ~o.close
        THEN [ret |-> -map_failed_to_close_exe_see_errno, params |-> found,
              fops |-> << stat, open, mmap, munmap, close >>]
        ELSE [ret |-> 1, params |-> found,
              fops |-> << stat, open, mmap, munmap, close >>]

\* dl_iterate_phdr: calls the callback on each module in turn until one
\* returns non-zero, and returns the last value the callback returned;
\* visited lists the modules the callback was called on
RECURSIVE dl_iterate_phdr(_, _, _, _)
dl_iterate_phdr(mods, i, find_params, o) ==
    IF i > Len(mods)
    THEN [ret |-> 0, params |-> find_params, fops |-> << >>, visited |-> << >>]
    ELSE LET res == FindMapping(mods[i], find_params, o)
             rest == dl_iterate_phdr(mods, i + 1, res.params, o)
         IN  IF res.ret # 0
             THEN [ret |-> res.ret, params |-> res.params, fops |-> res.fops,
                   visited |-> << i >>]
             ELSE [rest EXCEPT !.fops = res.fops \o rest.fops,
                               !.visited = << i >> \o rest.visited]

\* what discovery did: the pattern compiled, the modules visited, the file calls
Discovery(compiled, visited, fops) ==
    [compiled |-> compiled, visited |-> visited, fops |-> fops]

NoDiscovery == Discovery(FALSE, << >>, << >>)

\* the status and the region FindTextRegion leaves in *region
FindTextRegion(mods, lib_regex, region, o) ==
    IF lib_regex # NoRegex /\ ~RegexCompiles(lib_regex)
    THEN [status |-> map_invalid_regex, region |-> region, disc |-> NoDiscovery]
    ELSE LET find_params == FindParams(0, 0, lib_regex, lib_regex # NoRegex)
             res == dl_iterate_phdr(mods, 1, find_params, o)
             disc == Discovery(lib_regex # NoRegex, res.visited, res.fops)
         IN  IF res.ret < 0
             THEN [status |-> -res.ret, region |-> region, disc |-> disc]
             ELSE [status |-> map_ok,
                   region |-> Range(res.params.start, res.params.end),
                   disc |-> disc]

(***************************************************************************)
(* IsTransparentHugePagesEnabled: the file                                  *)
(* /sys/kernel/mm/transparent_hugepage/enabled as the sequence of its       *)
(* whitespace-separated tokens.                                             *)
(***************************************************************************)
MaxTokens == 4

ThpTokens == {"always", "[always]", "madvise", "[madvise]", "never", "[never]"}

ThpFiles == UNION { [1 .. n -> ThpTokens] : n \in 0 .. MaxTokens }

\* fscanf(ifs, "%s %s %s", always, madvise, never): the number of tokens
\* stored, EOF when the input ends before the first
EOF == -1
Fscanf3(file) ==
    IF Len(file) = 0 THEN EOF
    ELSE IF Len(file) < 3 THEN Len(file) ELSE 3

\* a probe that takes only [always] for enabled
IsTransparentHugePagesEnabled_always_only(enable, opened, file, result) ==
    IF ~enable THEN [status |-> map_unsupported_platform, result |-> result]
    ELSE IF ~opened THEN [status |-> map_failed_to_open_thp_file, result |-> FALSE]
    ELSE IF Fscanf3(file) # 3 THEN [status |-> map_malformed_thp_file, result |-> FALSE]
    ELSE [status |-> map_ok, result |-> file[1] = "[always]"]

\* a probe that does not look at what fscanf returned
IsTransparentHugePagesEnabled_unchecked(enable, opened, file, result) ==
    IF ~enable THEN [status |-> map_unsupported_platform, result |-> result]
    ELSE IF ~opened THEN [status |-> map_failed_to_open_thp_file, result |-> FALSE]
    ELSE [status |-> map_ok,
          result |-> \/ (Len(file) >= 1 /\ file[1] = "[always]")
                     \/ (Len(file) >= 2 /\ file[2] = "[madvise]")]

\* the status returned and *result as the call leaves it; enable is
\* ENABLE_LARGE_CODE_PAGES, opened the success of fopen, result the value of
\* *result at the call
IsTransparentHugePagesEnabled(enable, opened, file, result) ==
    IF ~enable THEN [status |-> map_unsupported_platform, result |-> result]
    ELSE IF ~opened THEN [status |-> map_failed_to_open_thp_file, result |-> FALSE]
    ELSE IF Fscanf3(file) # 3 THEN [status |-> map_malformed_thp_file, result |-> FALSE]
    ELSE IF file[1] = "[always]" THEN [status |-> map_ok, result |-> TRUE]
    ELSE IF file[2] = "[madvise]" THEN [status |-> map_ok, result |-> TRUE]
    ELSE [status |-> map_ok, result |-> FALSE]

\* the inputs of a probe: fopen is called only in a build with large pages
\* enabled, and the file is read only when fopen succeeded
ProbeInputs(enable) ==
    { in \in [opened : BOOLEAN, file : ThpFiles] :
        /\ in.opened => enable
        /\ ~in.opened => in.file = << >> }

(***************************************************************************)
(* The state of one process.                                               *)
(***************************************************************************)
VARIABLES
    pc,       \* where the calling thread is
    modules,  \* the loaded modules, in the order dl_iterate_phdr visits them
    calls,    \* the functions called so far, the facade entry point first
    raw,      \* the range before alignment
    r,        \* the mem_range given to CheckMemRange and MoveRegionToLargePages
    status,   \* the map_status being returned
    mem,      \* the address space
    nmem,     \* the temporary region of MoveRegionToLargePages
    log,      \* the system calls MoveRegionToLargePages has made, with outcomes
    selector, \* the lib_regex FindTextRegion was given
    disc,     \* what FindTextRegion did
    build,    \* ENABLE_LARGE_CODE_PAGES of the build
    probe,    \* the last call of IsLargePagesEnabled
    hook      \* the locals of map_to_large_pages, the preloaded constructor

vars == << pc, modules, calls, raw, r, status, mem, nmem, log, selector, disc,
           build, probe, hook >>

NoProbe == [called |-> FALSE, opened |-> FALSE, file |-> << >>,
            given |-> FALSE, result |-> FALSE]

NoHook == [at |-> "none", is_stderr |-> FALSE, is_enabled |-> TRUE,
           probed |-> map_ok, maps |-> 0, out |-> << >>, closed |-> FALSE]

\* no facade entry point that looks for a module has been called
NoSelector == "none"

NoRegion == [mapped |-> FALSE, data |-> << >>]

Init ==
    /\ pc = "idle"
    /\ modules \in Layouts
    /\ calls = << >>
    /\ raw = Range(NULL, NULL)
    /\ r = Range(NULL, NULL)
    /\ status = map_ok
    /\ mem = InitMem(modules)
    /\ nmem = NoRegion
    /\ log = << >>
    /\ selector = NoSelector
    /\ disc = NoDiscovery
    /\ build \in BOOLEAN
    /\ probe = NoProbe
    /\ hook = NoHook

(***************************************************************************)
(* The effect of the system and library calls on the address space.        *)
(***************************************************************************)
\* size_t size = r->to - r->from
SizeOf(range) == Wrap(range.to - range.from)

InRange(a, start, size) == start <= a /\ a < start + size

AddrsOf(start, size) == { a \in Addr : InRange(a, start, size) }

\* mmap(start, size, PROT_READ | PROT_WRITE | PROT_EXEC,
\*      MAP_PRIVATE | MAP_ANONYMOUS | MAP_FIXED, -1, 0)
MmapFixed(m, start, size) ==
    LET range == AddrsOf(start, size)
    IN  [mapped |-> m.mapped \cup range,
         readable |-> m.readable \cup range,
         writable |-> m.writable \cup range,
         executable |-> m.executable \cup range,
         anon |-> m.anon \cup range,
         huge |-> m.huge \ range,
         data |-> Bytes([a \in Addr |-> IF a \in range THEN 0 ELSE ByteAt(m, a)])]

\* madvise(tmem, size, MADV_HUGEPAGE)
MadviseHuge(m, start, size) ==
    [m EXCEPT !.huge = m.huge \cup AddrsOf(start, size)]

\* memcpy(nmem, r->from, size)
CopyOut(m, start, size) == [i \in 1 .. size |-> ByteAt(m, start + i - 1)]

\* a copy that stops one byte short
CopyBack_short(m, start, size, data) ==
    [m EXCEPT !.data = Bytes([a \in Addr |->
        IF InRange(a, start, size - 1) THEN data[a - start + 1] ELSE ByteAt(m, a)])]

\* memcpy(start, nmem, size)
CopyBack(m, start, size, data) ==
    [m EXCEPT !.data = Bytes([a \in Addr |->
        IF InRange(a, start, size) THEN data[a - start + 1] ELSE ByteAt(m, a)])]

\* mprotect(start, size, PROT_READ | PROT_EXEC)
MprotectRX(m, start, size) ==
    LET range == AddrsOf(start, size)
    IN  [m EXCEPT !.readable = m.readable \cup range,
                  !.writable = m.writable \ range,
                  !.executable = m.executable \cup range]

\* munmap(tmem, size)
Munmap(m, start, size) ==
    LET range == AddrsOf(start, size)
    IN  [mapped |-> m.mapped \ range,
         readable |-> m.readable \ range,
         writable |-> m.writable \ range,
         executable |-> m.executable \ range,
         anon |-> m.anon \ range,
         huge |-> m.huge \ range,
         data |-> Bytes([a \in Addr |-> IF a \in range THEN 0 ELSE ByteAt(m, a)])]

\* the code being executed lies in the range that was replaced
SelfInRange(range) ==
    \/ InRange(StubAddr, range.from, SizeOf(range))
    \/ InRange(LibcallAddr, range.from, SizeOf(range))

(***************************************************************************)
(* The statuses the two CLEAN_EXIT_CHECK(oper) macros paste together.      *)
(***************************************************************************)
Oper_failed(oper) ==
    CASE oper = "map_see_errno_mmap_tmem" -> map_see_errno_mmap_tmem_failed
      [] oper = "map_see_errno_madvise_tmem" -> map_see_errno_madvise_tmem_failed
      [] oper = "map_see_errno_mprotect" -> map_see_errno_mprotect_failed

Oper_munmap_tmem_failed(oper) ==
    CASE oper = "map_see_errno_madvise_tmem"
            -> map_see_errno_madvise_tmem_munmap_tmem_failed
      [] oper = "map_see_errno_mprotect" -> map_see_errno_mprotect_munmap_tmem_failed

Oper_munmap_nmem_failed(oper) ==
    CASE oper = "map_see_errno_mmap_tmem"
            -> map_see_errno_mmap_tmem_munmap_nmem_failed
      [] oper = "map_see_errno_madvise_tmem"
            -> map_see_errno_madvise_tmem_munmap_nmem_failed
      [] oper = "map_see_errno_mprotect" -> map_see_errno_mprotect_munmap_nmem_failed

Oper_munmaps_failed(oper) ==
    CASE oper = "map_see_errno_madvise_tmem"
            -> map_see_errno_madvise_tmem_munmaps_failed
      [] oper = "map_see_errno_mprotect" -> map_see_errno_mprotect_munmaps_failed

\* a cleanup that forgets that munmap(tmem) failed too
NmemCleanupFailed_forgets_tmem(oper, st) == Oper_munmap_nmem_failed(oper)

\* the status after ret = munmap(nmem, size) failed in the cleanup of oper
NmemCleanupFailed(oper, st) ==
    IF oper = "map_see_errno_mmap_tmem"
    THEN Oper_munmap_nmem_failed(oper)
    ELSE IF st = Oper_munmap_tmem_failed(oper)
         THEN Oper_munmaps_failed(oper)
         ELSE Oper_munmap_nmem_failed(oper)

Logged(op, ok) == [op |-> op, ok |-> ok]

\* the step whose CLEAN_EXIT_CHECK is running
FailedOper ==
    LET failed == { i \in 1 .. Len(log) :
                      /\ ~log[i].ok
                      /\ log[i].op \in {"mmap_tmem", "madvise", "mprotect"} }
        op == log[Max(failed)].op
    IN  CASE op = "mmap_tmem" -> "map_see_errno_mmap_tmem"
          [] op = "madvise" -> "map_see_errno_madvise_tmem"
          [] op = "mprotect" -> "map_see_errno_mprotect"

(***************************************************************************)
(* The facade entry points, and AlignMoveRegionToLargePages up to its call *)
(* of MoveRegionToLargePages.  called is the call chain so far.            *)
(***************************************************************************)
Return(st) ==
    /\ status' = st
    /\ pc' = "done"

\* AlignRegionToPageBoundary, CheckMemRange, then MoveRegionToLargePages(r)
AlignMoveRegionToLargePages(region, called) ==
    LET aligned == AlignRegionToPageBoundary(region)
        st == CheckMemRange(aligned)
    IN  /\ raw' = region
        /\ r' = aligned
        /\ IF st # map_ok
           THEN /\ Return(st)
                /\ calls' = Append(called, "AlignMoveRegionToLargePages")
           ELSE /\ status' = map_ok
                /\ pc' = "mmap_nmem"
                /\ calls' = called \o << "AlignMoveRegionToLargePages",
                                         "MoveRegionToLargePages" >>

\* called by the program, or by map_to_large_pages
MapStaticCodeToLargePages ==
    /\ pc \in {"idle", "hook_map"}
    /\ \E o \in FileOutcomes :
         LET found == FindTextRegion(modules, NoRegex, Range(NULL, NULL), o)
             called == calls \o << "MapStaticCodeToLargePages", "FindTextRegion" >>
         IN  /\ selector' = NoRegex
             /\ disc' = found.disc
             /\ IF found.status # map_ok
                THEN Return(found.status) /\ calls' = called /\ UNCHANGED << raw, r >>
                ELSE AlignMoveRegionToLargePages(found.region, called)
    /\ hook' = IF pc = "hook_map" THEN [hook EXCEPT !.maps = @ + 1] ELSE hook
    /\ UNCHANGED << modules, mem, nmem, log, build, probe >>

\* an entry point that hands a NULL pattern on to FindTextRegion
MapDSOToLargePages_no_null_check ==
    /\ pc = "idle"
    /\ \E lib_regex \in Patterns \cup {NoRegex}, o \in FileOutcomes :
         LET found == FindTextRegion(modules, lib_regex, Range(NULL, NULL), o)
             called == << "MapDSOToLargePages", "FindTextRegion" >>
         IN  /\ selector' = lib_regex
             /\ disc' = found.disc
             /\ IF found.status # map_ok
                THEN Return(found.status) /\ calls' = called /\ UNCHANGED << raw, r >>
                ELSE AlignMoveRegionToLargePages(found.region, called)
    /\ UNCHANGED << modules, mem, nmem, log, build, probe, hook >>

MapDSOToLargePages ==
    /\ pc = "idle"
    /\ \E lib_regex \in Patterns \cup {NoRegex}, o \in FileOutcomes :
         /\ selector' = lib_regex
         /\ IF lib_regex = NoRegex
            THEN /\ Return(map_null_regex)
                 /\ calls' = << "MapDSOToLargePages" >>
                 /\ disc' = NoDiscovery
                 /\ UNCHANGED << raw, r >>
            ELSE LET found == FindTextRegion(modules, lib_regex, Range(NULL, NULL), o)
                     called == << "MapDSOToLargePages", "FindTextRegion" >>
                 IN  /\ disc' = found.disc
                     /\ IF found.status # map_ok
                        THEN /\ Return(found.status)
                             /\ calls' = called
                             /\ UNCHANGED << raw, r >>
                        ELSE AlignMoveRegionToLargePages(found.region, called)
    /\ UNCHANGED << modules, mem, nmem, log, build, probe, hook >>

MapStaticCodeRangeToLargePages ==
    /\ pc = "idle"
    /\ \E from \in Addr, to \in Addr :
         AlignMoveRegionToLargePages(Range(from, to),
                                     << "MapStaticCodeRangeToLargePages" >>)
    /\ UNCHANGED << modules, mem, nmem, log, selector, disc, build, probe, hook >>

(***************************************************************************)
(* MoveRegionToLargePages, one action per call it makes.                   *)
(***************************************************************************)
\* a remap that replaces the range without copying it to nmem first
Move_mmap_nmem_skip_copy ==
    /\ pc = "mmap_nmem"
    /\ \E ok \in BOOLEAN :
         /\ log' = Append(log, Logged("mmap_nmem", ok))
         /\ IF ok
            THEN /\ nmem' = [mapped |-> TRUE, data |-> [i \in 1 .. SizeOf(r) |-> 0]]
                 /\ pc' = "mmap_tmem"
                 /\ UNCHANGED status
            ELSE /\ Return(map_see_errno)
                 /\ UNCHANGED nmem
    /\ UNCHANGED << modules, build, probe, hook, selector, disc, calls, raw, r, mem >>

\* nmem = mmap(NULL, size, PROT_READ | PROT_WRITE, MAP_PRIVATE | MAP_ANONYMOUS, ..)
Move_mmap_nmem ==
    /\ pc = "mmap_nmem"
    /\ \E ok \in BOOLEAN :
         /\ log' = Append(log, Logged("mmap_nmem", ok))
         /\ IF ok
            THEN /\ nmem' = [mapped |-> TRUE, data |-> [i \in 1 .. SizeOf(r) |-> 0]]
                 /\ pc' = "memcpy_nmem"
                 /\ UNCHANGED status
            ELSE /\ Return(map_see_errno)
                 /\ UNCHANGED nmem
    /\ UNCHANGED << modules, build, probe, hook, selector, disc, calls, raw, r, mem >>

\* memcpy(nmem, r->from, size)
Move_memcpy_nmem ==
    /\ pc = "memcpy_nmem"
    /\ IF AddrsOf(r.from, SizeOf(r)) \subseteq (mem.mapped \cap mem.readable)
       THEN /\ nmem' = [nmem EXCEPT !.data = CopyOut(mem, r.from, SizeOf(r))]
            /\ pc' = "mmap_tmem"
       ELSE /\ pc' = "crashed"
            /\ UNCHANGED nmem
    /\ log' = Append(log, Logged("memcpy_nmem", pc' # "crashed"))
    /\ UNCHANGED << modules, build, probe, hook, selector, disc, calls, raw, r, status, mem >>

\* tmem = mmap(start, size, ..., MAP_FIXED, ...); CLEAN_EXIT_CHECK
Move_mmap_tmem ==
    /\ pc = "mmap_tmem"
    /\ \E ok \in BOOLEAN :
         /\ log' = Append(log, Logged("mmap_tmem", ok))
         /\ IF ok
            THEN /\ mem' = MmapFixed(mem, r.from, SizeOf(r))
                 /\ pc' = IF SelfInRange(r) THEN "crashed" ELSE "madvise"
                 /\ UNCHANGED status
            ELSE /\ status' = Oper_failed("map_see_errno_mmap_tmem")
                 /\ pc' = "cleanup_nmem"
                 /\ UNCHANGED mem
    /\ UNCHANGED << modules, build, probe, hook, selector, disc, calls, raw, r, nmem >>

\* ret = madvise(tmem, size, MADV_HUGEPAGE); CLEAN_EXIT_CHECK
Move_madvise ==
    /\ pc = "madvise"
    /\ \E ok \in BOOLEAN :
         /\ log' = Append(log, Logged("madvise", ok))
         /\ IF ok
            THEN /\ mem' = MadviseHuge(mem, r.from, SizeOf(r))
                 /\ pc' = "memcpy_start"
                 /\ UNCHANGED status
            ELSE /\ status' = Oper_failed("map_see_errno_madvise_tmem")
                 /\ pc' = "cleanup_tmem"
                 /\ UNCHANGED mem
    /\ UNCHANGED << modules, build, probe, hook, selector, disc, calls, raw, r, nmem >>

\* memcpy(start, nmem, size)
Move_memcpy_start ==
    /\ pc = "memcpy_start"
    /\ mem' = CopyBack(mem, r.from, SizeOf(r), nmem.data)
    /\ log' = Append(log, Logged("memcpy_start", TRUE))
    /\ pc' = "mprotect"
    /\ UNCHANGED << modules, build, probe, hook, selector, disc, calls, raw, r, status, nmem >>

\* ret = mprotect(start, size, PROT_READ | PROT_EXEC); CLEAN_EXIT_CHECK
Move_mprotect ==
    /\ pc = "mprotect"
    /\ \E ok \in BOOLEAN :
         /\ log' = Append(log, Logged("mprotect", ok))
         /\ IF ok
            THEN /\ mem' = MprotectRX(mem, r.from, SizeOf(r))
                 /\ pc' = "release_nmem"
                 /\ UNCHANGED status
            ELSE /\ status' = Oper_failed("map_see_errno_mprotect")
                 /\ pc' = "cleanup_tmem"
                 /\ UNCHANGED mem
    /\ UNCHANGED << modules, build, probe, hook, selector, disc, calls, raw, r, nmem >>

\* a cleanup that returns as soon as munmap(tmem, size) fails
Move_cleanup_tmem_returns ==
    /\ pc = "cleanup_tmem"
    /\ \E ok \in BOOLEAN :
         /\ log' = Append(log, Logged("munmap_tmem", ok))
         /\ IF ok
            THEN /\ mem' = Munmap(mem, r.from, SizeOf(r))
                 /\ pc' = "cleanup_nmem"
                 /\ UNCHANGED status
            ELSE /\ Return(Oper_munmap_tmem_failed(FailedOper))
                 /\ UNCHANGED mem
    /\ UNCHANGED << modules, build, probe, hook, selector, disc, calls, raw, r, nmem >>

\* CLEAN_EXIT_CHECK: ret = munmap(tmem, size)
Move_cleanup_tmem ==
    /\ pc = "cleanup_tmem"
    /\ \E ok \in BOOLEAN :
         /\ log' = Append(log, Logged("munmap_tmem", ok))
         /\ IF ok
            THEN /\ mem' = Munmap(mem, r.from, SizeOf(r))
                 /\ UNCHANGED status
            ELSE /\ status' = Oper_munmap_tmem_failed(FailedOper)
                 /\ UNCHANGED mem
    /\ pc' = "cleanup_nmem"
    /\ UNCHANGED << modules, build, probe, hook, selector, disc, calls, raw, r, nmem >>

\* CLEAN_EXIT_CHECK: ret = munmap(nmem, size); return status
Move_cleanup_nmem ==
    /\ pc = "cleanup_nmem"
    /\ \E ok \in BOOLEAN :
         /\ log' = Append(log, Logged("munmap_nmem", ok))
         /\ IF ok
            THEN /\ nmem' = NoRegion
                 /\ UNCHANGED status
            ELSE /\ status' = NmemCleanupFailed(FailedOper, status)
                 /\ UNCHANGED nmem
    /\ pc' = "done"
    /\ UNCHANGED << modules, build, probe, hook, selector, disc, calls, raw, r, mem >>

\* Release the old/temporary mapped region; return status
Move_release_nmem ==
    /\ pc = "release_nmem"
    /\ \E ok \in BOOLEAN :
         /\ log' = Append(log, Logged("munmap_nmem", ok))
         /\ IF ok
            THEN /\ nmem' = NoRegion
                 /\ UNCHANGED status
            ELSE /\ status' = map_see_errno_munmap_nmem_failed
                 /\ UNCHANGED nmem
    /\ pc' = "done"
    /\ UNCHANGED << modules, build, probe, hook, selector, disc, calls, raw, r, mem >>

MoveRegionToLargePages ==
    \/ Move_mmap_nmem
    \/ Move_memcpy_nmem
    \/ Move_mmap_tmem
    \/ Move_madvise
    \/ Move_memcpy_start
    \/ Move_mprotect
    \/ Move_cleanup_tmem
    \/ Move_cleanup_nmem
    \/ Move_release_nmem

(***************************************************************************)
(* IsLargePagesEnabled, and map_to_large_pages of lp_preload.c.            *)
(***************************************************************************)
IsLargePagesEnabled ==
    /\ pc = "idle"
    /\ \E in \in ProbeInputs(build), given \in BOOLEAN :
         LET res == IsTransparentHugePagesEnabled(build, in.opened, in.file, given)
         IN  /\ probe' = [called |-> TRUE, opened |-> in.opened, file |-> in.file,
                          given |-> given, result |-> res.result]
             /\ Return(res.status)
    /\ calls' = << "IsLargePagesEnabled", "IsTransparentHugePagesEnabled" >>
    /\ UNCHANGED << modules, raw, r, mem, nmem, log, selector, disc, build, hook >>

\* a constructor that maps whenever the probe returned map_ok
Hook_probe_ignores_enabled ==
    /\ pc = "idle"
    /\ \E in \in ProbeInputs(build), log_opened \in BOOLEAN :
         LET res == IsTransparentHugePagesEnabled(build, in.opened, in.file, TRUE)
             go == res.status = map_ok
         IN  /\ hook' = [NoHook EXCEPT !.at = IF go THEN "map" ELSE "fail",
                                       !.is_stderr = ~log_opened,
                                       !.is_enabled = res.result,
                                       !.probed = res.status]
             /\ status' = res.status
             /\ pc' = IF go THEN "hook_map" ELSE "hook_fail"
    /\ calls' = << "map_to_large_pages", "IsLargePagesEnabled" >>
    /\ UNCHANGED << modules, raw, r, mem, nmem, log, selector, disc, build, probe >>

\* map_to_large_pages up to its call of MapStaticCodeToLargePages: open_log,
\* IsLargePagesEnabled(&is_enabled), and the two tests that follow
Hook_probe ==
    /\ pc = "idle"
    /\ \E in \in ProbeInputs(build), log_opened \in BOOLEAN :
         LET res == IsTransparentHugePagesEnabled(build, in.opened, in.file, TRUE)
             go == res.status = map_ok /\ res.result
         IN  /\ hook' = [NoHook EXCEPT !.at = IF go THEN "map" ELSE "fail",
                                       !.is_stderr = ~log_opened,
                                       !.is_enabled = res.result,
                                       !.probed = res.status]
             /\ status' = res.status
             /\ pc' = IF go THEN "hook_map" ELSE "hook_fail"
    /\ calls' = << "map_to_large_pages", "IsLargePagesEnabled" >>
    /\ UNCHANGED << modules, raw, r, mem, nmem, log, selector, disc, build, probe >>

\* the line map_to_large_pages writes at fail:
Diagnostic(st, is_enabled) ==
    IF st = map_ok
    THEN IF ~is_enabled THEN << "Mapping to large pages in not enabled" >> ELSE << >>
    ELSE << "Mapping to large pages failed" >>

\* map_to_large_pages from the return of MapStaticCodeToLargePages, or from
\* fail:, to its end
Hook_finish ==
    /\ \/ pc = "hook_fail"
       \/ pc = "done" /\ hook.at = "map"
    /\ hook' = [hook EXCEPT
                  !.at = "end",
                  !.out = IF pc = "done" /\ status = map_ok
                          THEN << >>
                          ELSE Diagnostic(status, hook.is_enabled),
                  !.closed = ~hook.is_stderr]
    /\ pc' = "hook_done"
    /\ UNCHANGED << modules, calls, raw, r, status, mem, nmem, log, selector, disc,
                    build, probe >>

map_to_large_pages == Hook_probe \/ Hook_finish

Next ==
    \/ MapStaticCodeToLargePages
    \/ MapDSOToLargePages
    \/ MapStaticCodeRangeToLargePages
    \/ MoveRegionToLargePages
    \/ IsLargePagesEnabled
    \/ map_to_large_pages

Spec == Init /\ [][Next]_vars

(***************************************************************************)
(* Properties.                                                             *)
(***************************************************************************)
Called(f) == \E i \in 1 .. Len(calls) : calls[i] = f

\* the entry point has returned (to the program, or to map_to_large_pages)
Returned == pc \in {"done", "hook_done"}

\* MoveRegionToLargePages was called and has returned
MoveReturned == Returned /\ Called("MoveRegionToLargePages")

RangeOf(range) == AddrsOf(range.from, SizeOf(range))

\* the outcome of the call of op in log: "ok", "failed", or "none"
Outcome(op) ==
    LET at == { i \in 1 .. Len(log) : log[i].op = op }
    IN  IF at = {} THEN "none"
        ELSE IF log[Max(at)].ok THEN "ok" ELSE "failed"

\* the step of the remap sequence that failed, or "none"
FailedStep ==
    IF Outcome("mmap_nmem") = "failed" THEN "mmap_nmem"
    ELSE IF Outcome("mmap_tmem") = "failed" THEN "mmap_tmem"
    ELSE IF Outcome("madvise") = "failed" THEN "madvise"
    ELSE IF Outcome("mprotect") = "failed" THEN "mprotect"
    ELSE "none"

\* C1: after a failed MoveRegionToLargePages every address of the range
\* that was mapped is still mapped, holds the bytes it held, and is
\* executable if it was.
C1_MappedAfterFailure ==
    (MoveReturned /\ status # map_ok) =>
        LET before == InitMem(modules)
        IN  \A a \in RangeOf(r) \cap before.mapped :
                /\ a \in mem.mapped
                /\ ByteAt(mem, a) = ByteAt(before, a)
                /\ (a \in before.executable => a \in mem.executable)

\* C2: whenever MoveRegionToLargePages returns a status other than ok, the
\* mapping and the contents of the range are as they were before the call.
C2_NoHalfAppliedRemap ==
    (MoveReturned /\ status # map_ok) =>
        LET before == InitMem(modules)
        IN  \A a \in RangeOf(r) :
                /\ a \in mem.mapped <=> a \in before.mapped
                /\ a \in mem.readable <=> a \in before.readable
                /\ a \in mem.writable <=> a \in before.writable
                /\ a \in mem.executable <=> a \in before.executable
                /\ a \in mem.anon <=> a \in before.anon
                /\ a \in mem.huge <=> a \in before.huge
                /\ ByteAt(mem, a) = ByteAt(before, a)

\* the (failing step, munmap of tmem, munmap of nmem) a status stands for
C3_Decode(st) ==
    CASE st = map_ok -> << "none", "none", "ok" >>
      [] st = map_see_errno_munmap_nmem_failed -> << "none", "none", "failed" >>
      [] st = map_see_errno -> << "mmap_nmem", "none", "none" >>
      [] st = map_see_errno_mmap_tmem_failed -> << "mmap_tmem", "none", "ok" >>
      [] st = map_see_errno_mmap_tmem_munmap_nmem_failed
            -> << "mmap_tmem", "none", "failed" >>
      [] st = map_see_errno_madvise_tmem_failed -> << "madvise", "ok", "ok" >>
      [] st = map_see_errno_madvise_tmem_munmap_tmem_failed
            -> << "madvise", "failed", "ok" >>
      [] st = map_see_errno_madvise_tmem_munmap_nmem_failed
            -> << "madvise", "ok", "failed" >>
      [] st = map_see_errno_madvise_tmem_munmaps_failed
            -> << "madvise", "failed", "failed" >>
      [] st = map_see_errno_mprotect_failed -> << "mprotect", "ok", "ok" >>
      [] st = map_see_errno_mprotect_munmap_tmem_failed
            -> << "mprotect", "failed", "ok" >>
      [] st = map_see_errno_mprotect_munmap_nmem_failed
            -> << "mprotect", "ok", "failed" >>
      [] st = map_see_errno_mprotect_munmaps_failed
            -> << "mprotect", "failed", "failed" >>
      [] OTHER -> << "other", "other", "other" >>

\* C3: the status MoveRegionToLargePages returns determines which step
\* failed and the outcome of each rollback munmap: the failing step and the
\* two munmap outcomes of the execution are those the status decodes to, so
\* executions that differ in any of them return different statuses, and a
\* plain <step>_failed status means that every rollback munmap succeeded.
C3_StatusEncodesOutcome ==
    MoveReturned =>
        C3_Decode(status) = << FailedStep, Outcome("munmap_tmem"), Outcome("munmap_nmem") >>

C3_Witness ==
    /\ MoveReturned
    /\ status = map_see_errno_mprotect_munmaps_failed
    /\ Outcome("munmap_tmem") = "failed"
    /\ Outcome("munmap_nmem") = "failed"

\* C4: MoveRegionToLargePages returns ok only if the range is mapped at the
\* same addresses, holds the bytes it held when the call started, is advised
\* for huge pages, is readable and executable but not writable, and the
\* temporary region is released.
C4_OkMeansRemapped ==
    (MoveReturned /\ status = map_ok) =>
        /\ \A a \in RangeOf(r) :
              /\ a \in mem.mapped
              /\ a \in mem.anon
              /\ ByteAt(mem, a) = ByteAt(InitMem(modules), a)
              /\ a \in mem.huge
              /\ a \in mem.readable
              /\ a \in mem.executable
              /\ a \notin mem.writable
        /\ ~nmem.mapped

C4_Witness ==
    /\ MoveReturned
    /\ status = map_ok
    /\ RangeOf(r) # {}
    /\ RangeOf(r) \subseteq (mem.anon \cap mem.huge)

\* C5: no range MoveRegionToLargePages is called with contains the code of
\* MoveRegionToLargePages or of the routines it calls.
C5_SelfOutsideRange ==
    Called("MoveRegionToLargePages") => ~SelfInRange(r)

\* to - from of the range as the caller gave it
RawLength == raw.to - raw.from

\* C6 as stated: every range with to - from < HPS given to
\* AlignMoveRegionToLargePages is answered map_region_too_small, and
\* MoveRegionToLargePages is not called.
C6_SmallIsTooSmall ==
    (Called("AlignMoveRegionToLargePages") /\ RawLength < HPS) =>
        /\ Returned
        /\ status = map_region_too_small
        /\ ~Called("MoveRegionToLargePages")

\* C6 amended: every range with to - from < HPS given to
\* AlignMoveRegionToLargePages is answered map_region_too_small when both
\* aligned bounds are non-null and the aligned from is not above the aligned
\* to, and map_invalid_region_address otherwise; MoveRegionToLargePages is
\* not called.
C6_SmallIsRejected ==
    (Called("AlignMoveRegionToLargePages") /\ RawLength < HPS) =>
        /\ Returned
        /\ ~Called("MoveRegionToLargePages")
        /\ log = << >>
        /\ status = IF r.from = NULL \/ r.to = NULL \/ r.from > r.to
                    THEN map_invalid_region_address
                    ELSE map_region_too_small

C6_Witness ==
    /\ Called("AlignMoveRegionToLargePages")
    /\ 0 < RawLength /\ RawLength < HPS
    /\ Returned
    /\ status = map_region_too_small

\* C7: every range with from == NULL, to == NULL or from > to given to
\* AlignMoveRegionToLargePages is answered map_invalid_region_address, also
\* when rounding from up wraps around, and MoveRegionToLargePages is not
\* called.
C7_InvalidBoundsRejected ==
    (Called("AlignMoveRegionToLargePages")
        /\ (raw.from = NULL \/ raw.to = NULL \/ raw.from > raw.to)) =>
        /\ Returned
        /\ status = map_invalid_region_address
        /\ ~Called("MoveRegionToLargePages")

C7_Witness ==
    /\ Called("AlignMoveRegionToLargePages")
    /\ raw.from > raw.to
    /\ raw.to # NULL
    /\ raw.from + HPS - 1 >= AddrSpace
    /\ r.from = NULL
    /\ Returned
    /\ status = map_invalid_region_address

\* C8: every range MoveRegionToLargePages is called with has from < to, both
\* bounds multiples of the huge-page size, and at least one huge page.
C8_MoveGetsValidRange ==
    Called("MoveRegionToLargePages") =>
        /\ r.from < r.to
        /\ r.from % HPS = 0
        /\ r.to % HPS = 0
        /\ r.to - r.from >= HPS

C8_Witness ==
    /\ Called("MoveRegionToLargePages")
    /\ Called("FindTextRegion")
    /\ raw.from % HPS # 0
    /\ raw.to % HPS # 0

\* C9 as stated: MapStaticCodeRangeToLargePages(from, to) with from == to
\* returns map_region_too_small whatever the address.
C9_EmptyIsTooSmall ==
    (Called("MapStaticCodeRangeToLargePages") /\ raw.from = raw.to) =>
        /\ Returned
        /\ status = map_region_too_small
        /\ ~Called("MoveRegionToLargePages")

\* C9 amended: MapStaticCodeRangeToLargePages(from, to) with from == to
\* returns map_region_too_small when the address is a non-null multiple of
\* the huge-page size and map_invalid_region_address otherwise, and does not
\* call MoveRegionToLargePages.
C9_EmptyIsRejected ==
    (Called("MapStaticCodeRangeToLargePages") /\ raw.from = raw.to) =>
        /\ Returned
        /\ ~Called("MoveRegionToLargePages")
        /\ log = << >>
        /\ status = IF raw.from # NULL /\ raw.from % HPS = 0
                    THEN map_region_too_small
                    ELSE map_invalid_region_address

C9_Witness ==
    /\ Called("MapStaticCodeRangeToLargePages")
    /\ raw.from = raw.to
    /\ raw.from # NULL
    /\ Returned
    /\ status = map_region_too_small

\* C10: AlignRegionToPageBoundary is idempotent: aligning the range it
\* returned gives that range again, and a range whose bounds are multiples
\* of the huge-page size is returned as it is.
C10_AlignIdempotent ==
    Called("AlignMoveRegionToLargePages") =>
        /\ AlignRegionToPageBoundary(r) = r
        /\ (raw.from % HPS = 0 /\ raw.to % HPS = 0 => r = raw)

C10_Witness ==
    /\ Called("AlignMoveRegionToLargePages")
    /\ raw.from % HPS # 0
    /\ raw.to % HPS # 0
    /\ r.from > raw.from
    /\ r.to < raw.to
    /\ r.from < r.to

(***************************************************************************)
(* Properties of the discovery of the code region.                         *)
(***************************************************************************)
Min(S) == CHOOSE x \in S : \A y \in S : x <= y

Elems(seq) == { seq[i] : i \in 1 .. Len(seq) }

\* FindTextRegion was called and enumerated the modules
DiscoveryRan ==
    /\ Called("FindTextRegion")
    /\ selector = NoRegex \/ RegexCompiles(selector)

\* the modules the selector stands for: the main executable (the module with
\* the empty name) without a pattern, the modules whose name matches otherwise
SelectorMatches(sel, name) ==
    IF sel = NoRegex THEN name = "" ELSE RegexMatches(sel, name)

MatchingModules(sel) ==
    { i \in 1 .. Len(modules) : SelectorMatches(sel, modules[i].dlpi_name) }

\* the .text range of a module
TextRegionOf(hdr) ==
    LET sec == hdr.sections[Max(TextIndexes(hdr.sections))]
    IN  Range(hdr.dlpi_addr + sec.sh_addr, hdr.dlpi_addr + sec.sh_addr + sec.sh_size)

\* the files discovery called stat, open or mmap on
FilesTouched == { f.file : f \in Elems(disc.fops) }

FileOf(hdr) == IF hdr.dlpi_name = "" THEN "/proc/self/exe" ELSE hdr.dlpi_name

\* C11: MapDSOToLargePages with a pattern that matches the name of no loaded
\* module returns map_region_not_found, having opened no file and mapped or
\* remapped nothing.
C11_NoMatchNotFound ==
    (/\ Called("MapDSOToLargePages")
     /\ DiscoveryRan
     /\ \A i \in 1 .. Len(modules) : ~RegexMatches(selector, modules[i].dlpi_name)) =>
        /\ Returned
        /\ status = map_region_not_found
        /\ disc.fops = << >>
        /\ ~Called("MoveRegionToLargePages")
        /\ log = << >>

\* C12: FindMapping processes only modules the selector stands for (the
\* module with the empty name without a pattern, modules whose name matches
\* the pattern otherwise), and the region FindTextRegion returns is the .text
\* range of the first enumerated module the selector stands for.
C12_RegionOfFirstMatch ==
    DiscoveryRan =>
        /\ \A i \in 1 .. Len(modules) :
              FileOf(modules[i]) \in FilesTouched => i \in MatchingModules(selector)
        /\ Called("AlignMoveRegionToLargePages") =>
              /\ MatchingModules(selector) # {}
              /\ raw = TextRegionOf(modules[Min(MatchingModules(selector))])

\* the outcome of the last call of op on a module's file: "ok", "failed", "none"
FileOutcome(op) ==
    LET at == { i \in 1 .. Len(disc.fops) : disc.fops[i].op = op }
    IN  IF at = {} THEN "none"
        ELSE IF disc.fops[Max(at)].ok THEN "ok" ELSE "failed"

\* FindMapping found the .text section of the module it processed
TextFound ==
    /\ disc.visited # << >>
    /\ FileOutcome("mmap") = "ok"
    /\ TextIndexes(modules[disc.visited[Len(disc.visited)]].sections) # {}

\* C13: when FindMapping has found the .text section and the munmap of the
\* file mapping or the close of the descriptor fails, the entry point returns
\* map_failed_to_unmap_exe_see_errno or map_failed_to_close_exe_see_errno
\* and MoveRegionToLargePages is not called.
C13_CleanupFailureReported ==
    (DiscoveryRan /\ TextFound) =>
        /\ FileOutcome("munmap") = "failed" =>
              /\ Returned
              /\ status = map_failed_to_unmap_exe_see_errno
              /\ ~Called("MoveRegionToLargePages")
        /\ (FileOutcome("munmap") = "ok" /\ FileOutcome("close") = "failed") =>
              /\ Returned
              /\ status = map_failed_to_close_exe_see_errno
              /\ ~Called("MoveRegionToLargePages")

\* MapDSOToLargePages returned map_null_regex at once
FailedFast ==
    /\ Returned
    /\ status = map_null_regex
    /\ ~Called("FindTextRegion")
    /\ disc = NoDiscovery
    /\ ~Called("MoveRegionToLargePages")
    /\ log = << >>

\* C14 as stated: MapDSOToLargePages returns map_null_regex at once when the
\* pattern is NULL or the empty string.
C14_EmptyOrNullFailsFast ==
    (Called("MapDSOToLargePages") /\ selector \in {NoRegex, ""}) => FailedFast

\* C14 amended: MapDSOToLargePages returns map_null_regex at once, without
\* compiling a pattern, enumerating modules or remapping, when the pattern is
\* NULL; every other pattern, the empty string too, is given to FindTextRegion.
C14_NullFailsFast ==
    Called("MapDSOToLargePages") =>
        /\ selector = NoRegex => FailedFast
        /\ selector # NoRegex => Called("FindTextRegion")

C14_Witness ==
    /\ Called("MapDSOToLargePages")
    /\ selector = NoRegex
    /\ FailedFast

\* C20: a module that FindMapping does not process does not end the
\* enumeration: when some loaded module satisfies FindMapping's condition,
\* the first such module is visited, however many modules precede it.
C20_EnumerationReachesMatch ==
    LET find_params == FindParams(0, 0, selector, selector # NoRegex)
        matching == { i \in 1 .. Len(modules) : Matches(find_params, modules[i]) }
    IN  (DiscoveryRan /\ matching # {}) => Min(matching) \in Elems(disc.visited)

(***************************************************************************)
(* Properties of the order of the calls of MoveRegionToLargePages.         *)
(***************************************************************************)
\* the calls of a remap in which nothing fails
RemapSequence ==
    << "mmap_nmem", "memcpy_nmem", "mmap_tmem", "madvise", "memcpy_start",
       "mprotect", "munmap_nmem" >>

\* the position in log of the first call that failed, Len(log) + 1 if none
FirstFailure == Min({ i \in 1 .. Len(log) : ~log[i].ok } \cup {Len(log) + 1})

Count(op) == Cardinality({ i \in 1 .. Len(log) : log[i].op = op })

Position(op) == Min({ i \in 1 .. Len(log) : log[i].op = op } \cup {Len(log) + 1})

\* C18: the calls of MoveRegionToLargePages are made in the order mmap of
\* nmem, copy to nmem, MAP_FIXED mmap, madvise, copy back, mprotect, munmap of
\* nmem, each only after the one before succeeded; after a failure only the
\* cleanup munmaps follow; the range is replaced only when nmem holds all its
\* bytes.
C18_RemapOrder ==
    /\ \A i \in 1 .. Len(log) :
          IF i <= FirstFailure
          THEN i <= Len(RemapSequence) /\ log[i].op = RemapSequence[i]
          ELSE log[i].op \in {"munmap_tmem", "munmap_nmem"}
    /\ (pc = "mmap_tmem" \/ Outcome("mmap_tmem") = "ok") /\ nmem.mapped =>
          nmem.data = CopyOut(InitMem(modules), r.from, SizeOf(r))
    /\ pc = "mmap_tmem" => nmem.mapped

C18_Witness ==
    /\ MoveReturned
    /\ status = map_ok
    /\ Len(log) = Len(RemapSequence)
    /\ ~nmem.mapped

\* C19: when MoveRegionToLargePages returns after nmem was mapped, munmap of
\* nmem was called exactly once; after a failed MAP_FIXED mmap only nmem is
\* released; after a failed madvise or mprotect tmem is released once and
\* then nmem, also when the munmap of tmem failed; nothing is released that
\* was not acquired.
C19_ReleaseOnEveryPath ==
    MoveReturned =>
        /\ Count("munmap_nmem") = IF Outcome("mmap_nmem") = "ok" THEN 1 ELSE 0
        /\ Count("munmap_tmem") =
              IF FailedStep \in {"madvise", "mprotect"} THEN 1 ELSE 0
        /\ Count("munmap_tmem") = 1 =>
              /\ Outcome("mmap_tmem") = "ok"
              /\ Position("munmap_tmem") < Position("munmap_nmem")

C19_Witness ==
    /\ MoveReturned
    /\ FailedStep = "madvise"
    /\ Outcome("munmap_tmem") = "failed"
    /\ Count("munmap_nmem") = 1

(***************************************************************************)
(* The probe and the constructor.                                           *)
(***************************************************************************)
\* IsLargePagesEnabled has returned after reading the capability file
ProbeRead == probe.called /\ probe.opened /\ Returned

\* C15 as stated: IsTransparentHugePagesEnabled returns the malformed-file
\* status whenever the capability file does not hold exactly three
\* whitespace-separated tokens, for fewer than three and for more than three.
C15_NotThreeIsMalformed ==
    (ProbeRead /\ Len(probe.file) # 3) => status = map_malformed_thp_file

\* C15 as the code has it: the malformed-file status is returned exactly when
\* the capability file holds fewer than three tokens; of a longer file the
\* first three tokens are parsed, the rest is never read, and the status is
\* map_ok.
C15_FewerThanThreeIsMalformed ==
    ProbeRead =>
        /\ (Len(probe.file) < 3) <=> (status = map_malformed_thp_file)
        /\ (Len(probe.file) >= 3) <=> (status = map_ok)
        /\ (Len(probe.file) > 3) =>
               probe.result =
                   IsTransparentHugePagesEnabled(
                       build, TRUE, SubSeq(probe.file, 1, 3), probe.given).result

C15_Witness ==
    /\ ProbeRead
    /\ probe.file = << "always", "madvise" >>
    /\ status = map_malformed_thp_file

\* the capability file as the kernel writes it: always, madvise, never in
\* this order, one of them in brackets
KernelFiles ==
    { << "[always]", "madvise", "never" >>,
      << "always", "[madvise]", "never" >>,
      << "always", "madvise", "[never]" >> }

\* C16: for a capability file of the three modes with one of them marked
\* active, IsTransparentHugePagesEnabled returns map_ok, with enabled = true if
\* the active mode is always or madvise and enabled = false if it is never;
\* whenever it returns the file-open or the malformed-file status, enabled is
\* false.
C16_EnabledFollowsActiveMode ==
    (probe.called /\ Returned) =>
        /\ (probe.opened /\ probe.file \in KernelFiles) =>
               /\ status = map_ok
               /\ probe.result = (probe.file[3] # "[never]")
        /\ status \in {map_failed_to_open_thp_file, map_malformed_thp_file} =>
               ~probe.result

C16_Witness ==
    /\ ProbeRead
    /\ probe.file = << "always", "[madvise]", "never" >>
    /\ probe.given = FALSE
    /\ probe.result = TRUE
    /\ status = map_ok

\* map_to_large_pages is running or has run
InHook == hook.at # "none"

\* map_to_large_pages has reached its end
HookReturned == pc = "hook_done"

\* C17: map_to_large_pages calls MapStaticCodeToLargePages at most once, and
\* only after IsLargePagesEnabled returned map_ok with enabled = true; for
\* every combination of probe and mapping outcomes it runs to its end (no step
\* of it is stuck or aborts), it has written a diagnostic line whenever the
\* probe failed, the feature is disabled or the mapping failed, and it has
\* closed the log file iff the log is not the standard error stream.
C17_HookRunsToItsEnd ==
    InHook =>
        /\ hook.maps <= 1
        /\ hook.maps = Cardinality({i \in 1 .. Len(calls) : calls[i] = "MapStaticCodeToLargePages"})
        /\ (hook.maps = 1) => (hook.probed = map_ok /\ hook.is_enabled)
        /\ pc # "crashed"
        /\ HookReturned \/ ENABLED Next
        /\ ~HookReturned => (hook.out = << >> /\ ~hook.closed)
        /\ HookReturned =>
               /\ (hook.maps = 1) <=> (hook.probed = map_ok /\ hook.is_enabled)
               /\ (hook.probed # map_ok \/ ~hook.is_enabled \/ status # map_ok)
                      <=> (Len(hook.out) = 1)
               /\ Len(hook.out) <= 1
               /\ hook.closed <=> (~hook.is_stderr)

C17_Witness ==
    /\ HookReturned
    /\ hook.maps = 1
    /\ status = map_see_errno_madvise_tmem_munmaps_failed
    /\ Len(hook.out) = 1
    /\ hook.closed

(***************************************************************************)
(* The files FindMapping works on, and the range that is remapped.         *)
(***************************************************************************)
\* the positions in disc.fops of the calls of op
FileOps(op) == { i \in 1 .. Len(disc.fops) : disc.fops[i].op = op }

\* every call of op in disc.fops comes before every call of later
FileOpsBefore(op, later) ==
    \A i \in FileOps(op), j \in FileOps(later) : i < j

\* C21: on every return path of FindMapping, whatever stat, open, mmap, the
\* section lookup, munmap and close did, munmap has been called exactly once
\* on the scratch mapping if mmap succeeded and not at all otherwise, close
\* has been called exactly once on the descriptor if open succeeded and not
\* at all otherwise, and each release comes after its acquisition, the
\* mapping's before the descriptor's.
C21_FileReleasedOnce ==
    Called("FindTextRegion") =>
        /\ Cardinality(FilesTouched) <= 1
        /\ Cardinality(FileOps("open")) <= 1
        /\ Cardinality(FileOps("mmap")) <= 1
        /\ Cardinality(FileOps("close")) = IF FileOutcome("open") = "ok" THEN 1 ELSE 0
        /\ Cardinality(FileOps("munmap")) = IF FileOutcome("mmap") = "ok" THEN 1 ELSE 0
        /\ FileOpsBefore("open", "mmap")
        /\ FileOpsBefore("open", "close")
        /\ FileOpsBefore("mmap", "munmap")
        /\ FileOpsBefore("mmap", "close")
        /\ FileOpsBefore("munmap", "close")

C21_Witness ==
    /\ Called("FindTextRegion")
    /\ Returned
    /\ FileOutcome("open") = "ok"
    /\ FileOutcome("mmap") = "failed"
    /\ FileOps("munmap") = {}
    /\ Cardinality(FileOps("close")) = 1
    /\ status = map_failed_to_map_exe_see_errno

\* the addresses whose mapping, protection or contents differ from before
Changed(now, then) == (now \ then) \cup (then \ now)

ReplacedSince(before) ==
    Changed(mem.mapped, before.mapped)
        \cup Changed(mem.readable, before.readable)
        \cup Changed(mem.writable, before.writable)
        \cup Changed(mem.executable, before.executable)
        \cup Changed(mem.anon, before.anon)
        \cup Changed(mem.huge, before.huge)
        \cup { a \in Addr : ByteAt(mem, a) # ByteAt(before, a) }

\* the address space the loader sets up, by layout
Loaded == [mods \in Layouts |-> InitMem(mods)]

\* the addresses that differ from what the loader set up
Replaced == ReplacedSince(Loaded[modules])

\* C22: whenever validation succeeds, the aligned range MoveRegionToLargePages
\* is called with lies inside the raw range (raw.from <= r.from and
\* r.to <= raw.to), and the remap replaces no address outside the raw range; a
\* raw range whose from wraps around when rounded up never passes validation.
C22_AlignedInsideRaw ==
    Called("MoveRegionToLargePages") =>
        /\ raw.from <= r.from
        /\ r.to <= raw.to
        /\ raw.from + HPS - 1 < AddrSpace
        /\ \A a \in Replaced : raw.from <= a /\ a < raw.to

C22_Witness ==
    /\ MoveReturned
    /\ status = map_ok
    /\ raw.from < r.from
    /\ r.to < raw.to
    /\ Replaced = RangeOf(r)

====
